---- MODULE Spec2Model ----
(***************************************************************************)
(* Chamber-pressure solver of design_EBHR.py (class Gen_excond_table):     *)
(* the batch sweep gen_table, the single-point solve converge_Pc with its  *)
(* Newton (secant) attempt and Brent fallback, and the residual            *)
(* _iterat_func_Pc_ they iterate on.                                       *)
(*                                                                         *)
(* Pressures are integers in units of 1.0e4 Pa, so the Brent bracket       *)
(* [1.0e4, 10e6] Pa is [1, 1000] and the initial guess 1.0e6 Pa is 100.    *)
(* The residual (Pc_cal - Pc)/Pc_cal is kept as an integer number of       *)
(* thousandths.  scipy's root finders are modelled step by step on this    *)
(* grid: optimize.newton without fprime is the secant iteration,           *)
(* optimize.brentq the bracketing iteration (secant step when it is a      *)
(* short step, bisection otherwise).                                       *)
(*                                                                         *)
(* The property tables of cea_post.py (class Read_datset) form a second    *)
(* part with its own specification, GridSpec: the constructor, gen_func    *)
(* and the function it returns, over folders of small integer tables.      *)
(***************************************************************************)
EXTENDS Integers, Sequences, FiniteSets, TLC

\* ---------------------------------------------------------------- bounds
MaxMox == 3        \* mass-flow values are 1..MaxMox (units of 10 g/s)
MaxDt == 2         \* throat diameters are 1..MaxDt (model units)
MaxStep == 2       \* largest interval of an input range
Tol == 2           \* tol / xtol (1.0e-3 Pa in the source) in grid units
BrentMaxIter == 6  \* brentq's iteration budget (maxiter=50 at the source's
                   \* resolution), scaled with the pressure grid
MaxLoads == 3      \* the count of CSTAR loads stops here

\* ------------------------------------------------------ program constants
Pc_init_default == 100   \* Pc_init=1.0e+6 [Pa]
BrentLo == 1             \* 1.0e+4 [Pa]
BrentHi == 1000          \* 10e+6 [Pa]
NewtonMaxIter == 10      \* maxiter=10
ErrScale == 1000         \* the residual is counted in thousandths

\* ------------------------------------------------------------ arithmetic
Abs(x) == IF x < 0 THEN -x ELSE x

Sign(x) == IF x > 0 THEN 1 ELSE IF x < 0 THEN -1 ELSE 0

Min(a, b) == IF a < b THEN a ELSE b

\* quotient rounded towards minus infinity, for either sign of b
FloorDiv(a, b) == IF b > 0 THEN a \div b ELSE (-a) \div (-b)

\* quotient rounded towards zero
TruncDiv(a, b) == Sign(a) * Sign(b) * (Abs(a) \div Abs(b))

\* np.arange(start, stop, step): start, start+step, ... below stop
RECURSIVE Arange(_, _, _)
Arange(start, stop, step) ==
    IF start >= stop THEN << >>
    ELSE << start >> \o Arange(start + step, stop, step)

\* ------------------------------------------- characteristic-velocity data
\* The CSTAR table found at cea_path, as the product eta*cstr*(1 + 1/of)
\* seen along the pressure axis: a list of <<pressure node, value>>, the
\* value of the last node at or below the pressure being used.  "missing"
\* is a cea_path without a CSTAR table.  With HighTable the computed
\* pressure is so far above the guess that the residual at the guess and at
\* newton's second starting point are the same number.
FlatTable == << <<0, 150>> >>

StepTable == << <<0, 200>>, <<200, 50>>, <<650, 400>> >>

HighTable == << <<0, 2200>> >>

CstrTables == {"flat", "step", "high", "missing"}

TableOf(name) ==
    IF name = "flat" THEN FlatTable
    ELSE IF name = "high" THEN HighTable
    ELSE StepTable

RECURSIVE Lookup(_, _, _)
Lookup(tbl, k, Pc) ==
    IF k = 1 THEN tbl[1][2]
    ELSE IF Pc >= tbl[k][1] THEN tbl[k][2]
    ELSE Lookup(tbl, k - 1, Pc)

\* gen_func_cstr(cea_path) raises when the table does not exist
gen_func_cstr_raises(cea) == cea = "missing"

func_cstr(cea, Pc) == Lookup(TableOf(cea), Len(TableOf(cea)), Pc)

func_Pc_cal(cea, Pc, mox, Dt) == (func_cstr(cea, Pc) * mox) \div (Dt * Dt)

\* _iterat_func_Pc_: error = (Pc_cal - Pc)/Pc_cal, in thousandths
iterat_func_Pc(cea, Pc, mox, Dt) ==
    LET Pc_cal == func_Pc_cal(cea, Pc, mox, Dt)
        diff == Pc_cal - Pc
    IN  FloorDiv(diff * ErrScale, Pc_cal)

\* ------------------------------------------------- optimize.newton (secant)
NewtonIdle == [st |-> "new", p0 |-> 0, p1 |-> 0, q0 |-> 0, q1 |-> 0,
               itr |-> 0, val |-> 0]

NewtonRaise(n) == [n EXCEPT !.st = "exc"]

NewtonReturn(n, p) == [n EXCEPT !.st = "ret", !.val = p]

\* the two starting points and their residuals; an error raised by the
\* residual leaves newton as an exception
NewtonInit(cea, x0, mox, Dt) ==
    IF gen_func_cstr_raises(cea) THEN NewtonRaise(NewtonIdle)
    ELSE LET p1 == IF x0 >= 0 THEN x0 + 1 ELSE x0 - 1
         IN  [st |-> "run", p0 |-> x0, p1 |-> p1,
              q0 |-> iterat_func_Pc(cea, x0, mox, Dt),
              q1 |-> iterat_func_Pc(cea, p1, mox, Dt),
              itr |-> 0, val |-> 0]

\* variant: the loop has no iteration budget
NewtonStep_unbounded(cea, n, mox, Dt) ==
    IF n.q1 = n.q0 THEN NewtonReturn(n, FloorDiv(n.p1 + n.p0, 2))
    ELSE LET p == n.p1 - FloorDiv(n.q1 * (n.p1 - n.p0), n.q1 - n.q0)
         IN  IF Abs(p - n.p1) < Tol THEN NewtonReturn(n, p)
             ELSE [st |-> "run", p0 |-> n.p1, q0 |-> n.q1, p1 |-> p,
                   q1 |-> iterat_func_Pc(cea, p, mox, Dt),
                   itr |-> n.itr + 1, val |-> 0]

\* one pass of "for iter in range(maxiter)"; RuntimeError once the budget
\* is used up
NewtonStep(cea, n, mox, Dt) ==
    IF n.itr >= NewtonMaxIter THEN NewtonRaise(n)
    ELSE IF n.q1 = n.q0 THEN NewtonReturn(n, FloorDiv(n.p1 + n.p0, 2))
    ELSE LET p == n.p1 - FloorDiv(n.q1 * (n.p1 - n.p0), n.q1 - n.q0)
         IN  IF Abs(p - n.p1) < Tol THEN NewtonReturn(n, p)
             ELSE [st |-> "run", p0 |-> n.p1, q0 |-> n.q1, p1 |-> p,
                   q1 |-> iterat_func_Pc(cea, p, mox, Dt),
                   itr |-> n.itr + 1, val |-> 0]

RECURSIVE NewtonRun(_, _, _, _)
NewtonRun(cea, n, mox, Dt) ==
    IF n.st = "run" THEN NewtonRun(cea, NewtonStep(cea, n, mox, Dt), mox, Dt)
    ELSE n

\* ------------------------------------------------------- optimize.brentq
BrentIdle == [st |-> "new", xpre |-> 0, xcur |-> 0, xblk |-> 0,
              fpre |-> 0, fcur |-> 0, fblk |-> 0, spre |-> 0, scur |-> 0,
              itr |-> 0, val |-> 0]

BrentRaise(b) == [b EXCEPT !.st = "exc"]

BrentReturn(b, x) == [b EXCEPT !.st = "ret", !.val = x]

\* the residual at both ends of the bracket: ValueError when both have the
\* same sign, an end that is a root is returned at once
BrentInit(cea, mox, Dt) ==
    IF gen_func_cstr_raises(cea) THEN BrentRaise(BrentIdle)
    ELSE LET fa == iterat_func_Pc(cea, BrentLo, mox, Dt)
             fb == iterat_func_Pc(cea, BrentHi, mox, Dt)
             b0 == [BrentIdle EXCEPT !.xpre = BrentLo, !.xcur = BrentHi,
                                     !.fpre = fa, !.fcur = fb]
         IN  IF Sign(fa) * Sign(fb) > 0 THEN BrentRaise(b0)
             ELSE IF fa = 0 THEN BrentReturn(b0, BrentLo)
             ELSE IF fb = 0 THEN BrentReturn(b0, BrentHi)
             ELSE [b0 EXCEPT !.st = "run"]

\* the bracket is re-established when the last two points straddle the root
BrentBracket(b) ==
    IF Sign(b.fpre) * Sign(b.fcur) < 0
    THEN [b EXCEPT !.xblk = b.xpre, !.fblk = b.fpre,
                   !.spre = b.xcur - b.xpre, !.scur = b.xcur - b.xpre]
    ELSE b

\* xcur is kept the end with the smaller residual
BrentSwap(b) ==
    IF Abs(b.fblk) < Abs(b.fcur)
    THEN [b EXCEPT !.xpre = b.xcur, !.xcur = b.xblk, !.xblk = b.xcur,
                   !.fpre = b.fcur, !.fcur = b.fblk, !.fblk = b.fcur]
    ELSE b

\* variant: the bracket is accepted while still a hundred times too wide
BrentDone_loose(c) ==
    c.fcur = 0 \/ Abs(TruncDiv(c.xblk - c.xcur, 2)) < 100 * Tol

\* brentq's exit test: xcur is a root, or the bracket is within tolerance
BrentDone(c) ==
    c.fcur = 0 \/ Abs(TruncDiv(c.xblk - c.xcur, 2)) < Tol \div 2

\* the body of brentq's loop: return xcur, or move it by a secant step when
\* that is a short step and by bisection otherwise
BrentPass(cea, b, mox, Dt) ==
    LET c == BrentSwap(BrentBracket(b))
        delta == Tol \div 2
        sbis == TruncDiv(c.xblk - c.xcur, 2)
    IN  IF BrentDone(c) THEN BrentReturn(c, c.xcur)
        ELSE LET stry == TruncDiv(-c.fcur * (c.xcur - c.xpre),
                                  c.fcur - c.fpre)
                 short == /\ Abs(c.spre) > delta
                          /\ Abs(c.fcur) < Abs(c.fpre)
                          /\ 2 * Abs(stry) <
                               Min(Abs(c.spre), 3 * Abs(sbis) - delta)
                 spre == IF short THEN c.scur ELSE sbis
                 scur == IF short THEN stry ELSE sbis
                 xnew == IF Abs(scur) > delta THEN c.xcur + scur
                         ELSE IF sbis > 0 THEN c.xcur + delta
                         ELSE c.xcur - delta
             IN  [c EXCEPT !.xpre = c.xcur, !.fpre = c.fcur,
                           !.spre = spre, !.scur = scur,
                           !.xcur = xnew,
                           !.fcur = iterat_func_Pc(cea, xnew, mox, Dt),
                           !.itr = c.itr + 1]

\* variant: a used-up budget is not reported (disp=False), xcur is returned
BrentStep_quiet(cea, b, mox, Dt) ==
    IF b.itr >= BrentMaxIter THEN BrentReturn(b, b.xcur)
    ELSE BrentPass(cea, b, mox, Dt)

\* one pass of "for (i = 0; i < iter; i++)"; RuntimeError once the budget
\* is used up (disp is left at its default)
BrentStep(cea, b, mox, Dt) ==
    IF b.itr >= BrentMaxIter THEN BrentRaise(b)
    ELSE BrentPass(cea, b, mox, Dt)

RECURSIVE BrentRun(_, _, _, _)
BrentRun(cea, b, mox, Dt) ==
    IF b.st = "run" THEN BrentRun(cea, BrentStep(cea, b, mox, Dt), mox, Dt)
    ELSE b

\* ------------------------------------------------------------ converge_Pc
Value(v) == [kind |-> "value", val |-> v]

Error == [kind |-> "error", val |-> 0]

NoOutcome == [kind |-> "none", val |-> 0]

\* try: newton ... except: brentq ...; return(Pc)
converge_Pc(cea, mox, Dt, x0) ==
    LET n == NewtonRun(cea, NewtonInit(cea, x0, mox, Dt), mox, Dt)
    IN  IF n.st = "ret" THEN Value(n.val)
        ELSE LET b == BrentRun(cea, BrentInit(cea, mox, Dt), mox, Dt)
             IN  IF b.st = "ret" THEN Value(b.val) ELSE Error

\* ------------------------------------------- cea_post.py: class Read_datset
\* A folder of tables, one csv file per property: the row labels are the
\* mixture ratios, the column labels the pressures in MPa, and the list is
\* in the order glob returns the files.  Queries give the pressure in Pa.
PaPerMPa == 1000000      \* func: Pc = Pc*1.0e-6

SplineOrder == 3         \* interp2d(..., kind="cubic")

MaxOfQ == 8              \* mixture ratios asked for are 0..MaxOfQ

MaxPcQ == 5              \* pressures asked for are 0..MaxPcQ MPa

\* the value a table holds at mixture ratio o and pressure p
Val(shape, o, p) == IF shape = "linear" THEN 10 * o + p ELSE o * o + 3 * p

File(name, ofs, pcs, shape) ==
    [name |-> name, of |-> ofs, Pc |-> pcs,
     value |-> [i \in 1..Len(ofs) |->
                   [j \in 1..Len(pcs) |-> Val(shape, ofs[i], pcs[j])]]]

Folder(files) == [exists |-> TRUE, files |-> files]

NoFolder == [exists |-> FALSE, files |-> << >>]

OfEven == << 2, 3, 4, 5 >>

OfUneven == << 2, 3, 5, 6 >>

OfShifted == << 3, 4, 5, 6 >>

OfFive == << 2, 3, 4, 5, 6 >>

OfThree == << 2, 3, 4 >>

OfTwo == << 2, 3 >>

PcAxis == << 1, 2, 3, 4 >>

\* as many labels as a bicubic fit of scattered points needs points
LongAxis == [k \in 1..((SplineOrder + 1) * (SplineOrder + 1)) |-> k]

Folders ==
    { NoFolder,
      Folder(<< >>),
      Folder(<< File("CSTAR", OfEven, PcAxis, "linear") >>),
      Folder(<< File("CSTAR", OfEven, PcAxis, "curved") >>),
      Folder(<< File("CSTAR", OfUneven, PcAxis, "linear") >>),
      Folder(<< File("CSTAR", OfThree, PcAxis, "curved") >>),
      Folder(<< File("CSTAR", OfTwo, PcAxis, "curved") >>),
      Folder(<< File("CSTAR", OfEven, PcAxis, "curved"),
                File("T_c", OfEven, PcAxis, "linear") >>),
      Folder(<< File("CSTAR", OfEven, PcAxis, "curved"),
                File("T_c", OfShifted, PcAxis, "linear") >>),
      Folder(<< File("T_c", OfShifted, PcAxis, "linear"),
                File("CSTAR", OfEven, PcAxis, "curved") >>),
      Folder(<< File("T_c", OfFive, PcAxis, "linear"),
                File("CSTAR", OfEven, PcAxis, "curved") >>),
      Folder(<< File("T_c", LongAxis, LongAxis, "linear"),
                File("CSTAR", OfEven, PcAxis, "curved") >>) }

Params == {"CSTAR", "T_c"}

\* the extraporate argument of gen_func
Selectors == {"linear", "False", "exp"}

\* what an operation hands to its caller: a returned object, function,
\* value or None, an exception, or the end of the process
Nothing == [kind |-> "none", val |-> 0, err |-> ""]

Returned(kind, v) == [kind |-> kind, val |-> v, err |-> ""]

Raised(e) == [kind |-> "raise", val |-> 0, err |-> e]

Exited(code) == [kind |-> "exit", val |-> code, err |-> "SystemExit"]

NoObject == [st |-> "none", axes |-> FALSE, of |-> << >>, Pc |-> << >>]

NoFunc ==
    [st |-> "none", param |-> "", x |-> << >>, y |-> << >>, z |-> << >>,
     extraporate |-> ""]

NoQuery ==
    [of |-> 0, Pc |-> 0, branch |-> "none", a |-> 0, b |-> 0, diff |-> 0,
     out |-> Nothing]

\* get_flist: the file names without extension, in glob's order
get_flist(f) == [k \in 1..Len(f.files) |-> f.files[k].name]

\* __init__: the axes are taken from the first file of the list
Read_datset_init(f) ==
    IF ~f.exists
    THEN [obj |-> [NoObject EXCEPT !.st = "made"],
          out |-> Returned("object", 0)]
    ELSE IF get_flist(f) = << >>
    THEN [obj |-> NoObject, out |-> Raised("IndexError")]
    ELSE [obj |-> [st |-> "made", axes |-> TRUE,
                   of |-> f.files[1].of, Pc |-> f.files[1].Pc],
          out |-> Returned("object", 0)]

HasFile(f, param_name) ==
    \E k \in 1..Len(f.files) : f.files[k].name = param_name

\* _read_csv_: the values of the named file, or sys.exit(1)
read_csv(f, param_name) ==
    IF HasFile(f, param_name)
    THEN LET k == CHOOSE k \in 1..Len(f.files) : f.files[k].name = param_name
         IN  Returned("array", f.files[k].value)
    ELSE Exited(1)

\* interpolate.interp2d(x, y, array.T, kind="cubic"): values whose number is
\* len(x)*len(y) are a grid and must have that shape and more than
\* SplineOrder points along each axis; any other values are taken as
\* scattered points (x[k], y[k], z[k]) and need equal lengths and
\* (SplineOrder + 1)^2 points
interp2d(x, y, array) ==
    LET n == Len(x)
        m == Len(y)
        r == Len(array)
        c == IF r = 0 THEN 0 ELSE Len(array[1])
        fit(st) == [st |-> st, param |-> "", x |-> x, y |-> y, z |-> array,
                    extraporate |-> ""]
    IN  IF r * c = n * m
        THEN IF << c, r >> # << m, n >> THEN Raised("ValueError")
             ELSE IF n <= SplineOrder \/ m <= SplineOrder
             THEN Raised("dfitpack.error")
             ELSE Returned("fit", fit("grid"))
        ELSE IF n # m \/ r * c # n THEN Raised("ValueError")
        ELSE IF n < (SplineOrder + 1) * (SplineOrder + 1)
        THEN Raised("TypeError")
        ELSE Returned("fit", fit("scatter"))

\* gen_func: read the values (line 134), fit the surface over the object's
\* axes (line 135), return the closure
gen_func(f, obj, param_name, extraporate) ==
    LET array == read_csv(f, param_name)
    IN  IF array.kind = "exit" THEN array
        ELSE LET surface == interp2d(obj.of, obj.Pc, array.val)
             IN  IF surface.kind = "raise" THEN surface
                 ELSE Returned("function",
                               [surface.val EXCEPT
                                    !.param = param_name,
                                    !.extraporate = extraporate])

\* ---- the fitted surface.  It passes through the values it was fitted to;
\* between them the model interpolates linearly, and outside the axes it
\* has the value of the nearest edge (bounds_error=False, no fill_value).
Clamp(axis, v) ==
    IF v < axis[1] THEN axis[1]
    ELSE IF v > axis[Len(axis)] THEN axis[Len(axis)]
    ELSE v

\* the node at or below v
Cell(axis, v) ==
    CHOOSE k \in 1..Len(axis) :
        axis[k] <= v /\ (k = Len(axis) \/ v < axis[k + 1])

Lerp(x0, y0, x1, y1, x) == y0 + FloorDiv((y1 - y0) * (x - x0), x1 - x0)

\* z = array.T: the value paired with (x[i], y[j]) is array[i][j]
AlongOf(fit, j, o) ==
    LET i == Cell(fit.x, o)
    IN  IF fit.x[i] = o THEN fit.z[i][j]
        ELSE Lerp(fit.x[i], fit.z[i][j], fit.x[i + 1], fit.z[i + 1][j], o)

\* ravel(array.T)[k], k counted from 1
RavelT(array, k) ==
    array[((k - 1) % Len(array)) + 1][((k - 1) \div Len(array)) + 1]

\* variant: beyond the pressure axis the surface is continued with a slope
func_interp_sloped(fit, o, p) ==
    LET oc == Clamp(fit.x, o)
        pc0 == Clamp(fit.y, p)
        j == Cell(fit.y, pc0)
    IN  IF fit.st = "scatter" THEN RavelT(fit.z, Cell(fit.x, oc)) + (p - pc0)
        ELSE AlongOf(fit, j, oc) + (p - pc0)

func_interp(fit, o, p) ==
    LET oc == Clamp(fit.x, o)
        pc0 == Clamp(fit.y, p)
        j == Cell(fit.y, pc0)
    IN  IF fit.st = "scatter" THEN RavelT(fit.z, Cell(fit.x, oc))
        ELSE IF fit.y[j] = pc0 THEN AlongOf(fit, j, oc)
        ELSE Lerp(fit.y[j], AlongOf(fit, j, oc),
                  fit.y[j + 1], AlongOf(fit, j + 1, oc), pc0)

\* ---- func(of, Pc), lines 136-243
ToMPa(P) == FloorDiv(P, PaPerMPa)

SeqMin(s) == CHOOSE v \in {s[k] : k \in 1..Len(s)} :
                 \A k \in 1..Len(s) : v <= s[k]

SeqMax(s) == CHOOSE v \in {s[k] : k \in 1..Len(s)} :
                 \A k \in 1..Len(s) : v >= s[k]

\* s[i] of Python: i counts from 0, a negative i from the end
InRange(s, i) == -Len(s) <= i /\ i < Len(s)

At(s, i) == IF i >= 0 THEN s[i + 1] ELSE s[Len(s) + i + 1]

\* variant: the distance from the edge enters squared
extrapfunc_square(of, a, b, diff) == diff * (of - a) * (of - a) + b

extrapfunc_linear(of, a, b, diff) == diff * (of - a) + b

\* lines 202 and 222: the three-point slope at the edge
diff_begin(cstr_array, ofs) ==
    FloorDiv(-3 * At(cstr_array, 0) + 4 * At(cstr_array, 1)
                 - At(cstr_array, 2),
             2 * (At(ofs, 1) - At(ofs, 0)))

diff_end(cstr_array, ofs) ==
    LET n == Len(cstr_array)
    IN  FloorDiv(At(cstr_array, n - 3) - 4 * At(cstr_array, n - 2)
                     + 3 * At(cstr_array, n - 1),
                 2 * (At(ofs, Len(ofs) - 1) - At(ofs, Len(ofs) - 2)))

\* variant: the line starts at the second row
lower_b_second(cstr_array) == At(cstr_array, 1)

\* lines 205-206 and 225-226: where the straight line starts
lower_b(cstr_array) == At(cstr_array, 0)

upper_b(cstr_array) == At(cstr_array, Len(cstr_array) - 1)

\* lines 207-220 and 227-240: cea_exe is "pass" and returns None; a
\* selector that is neither False nor "linear" leaves val unassigned
extrapolate(extraporate, of, a, b, diff) ==
    IF extraporate = "False" THEN Returned("None", 0)
    ELSE IF extraporate = "linear"
    THEN Returned("value", extrapfunc_linear(of, a, b, diff))
    ELSE Raised("UnboundLocalError")

\* variant: the lower edge itself is taken as below the axis
func_closed(obj, fit, of, P) ==
    LET Pm == ToMPa(P)
        cstr_array == [k \in 1..Len(obj.of) |->
                          func_interp(fit, obj.of[k], Pm)]
        n == Len(cstr_array)
        q == [NoQuery EXCEPT !.of = of, !.Pc = P]
    IN  IF of <= SeqMin(obj.of)
        THEN IF ~(InRange(cstr_array, 2) /\ InRange(obj.of, 1))
             THEN [q EXCEPT !.branch = "lower", !.out = Raised("IndexError")]
             ELSE LET diff == diff_begin(cstr_array, obj.of)
                      a == SeqMin(obj.of)
                      b == lower_b(cstr_array)
                  IN  [q EXCEPT !.branch = "lower", !.a = a, !.b = b,
                                !.diff = diff,
                                !.out = extrapolate(fit.extraporate, of, a,
                                                    b, diff)]
        ELSE IF SeqMax(obj.of) < of
        THEN IF ~(InRange(cstr_array, n - 3) /\ InRange(obj.of, n - 2))
             THEN [q EXCEPT !.branch = "upper", !.out = Raised("IndexError")]
             ELSE LET diff == diff_end(cstr_array, obj.of)
                      a == SeqMax(obj.of)
                      b == upper_b(cstr_array)
                  IN  [q EXCEPT !.branch = "upper", !.a = a, !.b = b,
                                !.diff = diff,
                                !.out = extrapolate(fit.extraporate, of, a,
                                                    b, diff)]
        ELSE [q EXCEPT !.branch = "inner",
                       !.out = Returned("value", func_interp(fit, of, Pm))]

func(obj, fit, of, P) ==
    LET Pm == ToMPa(P)
        cstr_array == [k \in 1..Len(obj.of) |->
                          func_interp(fit, obj.of[k], Pm)]
        n == Len(cstr_array)
        q == [NoQuery EXCEPT !.of = of, !.Pc = P]
    IN  IF of < SeqMin(obj.of)
        THEN IF ~(InRange(cstr_array, 2) /\ InRange(obj.of, 1))
             THEN [q EXCEPT !.branch = "lower", !.out = Raised("IndexError")]
             ELSE LET diff == diff_begin(cstr_array, obj.of)
                      a == SeqMin(obj.of)
                      b == lower_b(cstr_array)
                  IN  [q EXCEPT !.branch = "lower", !.a = a, !.b = b,
                                !.diff = diff,
                                !.out = extrapolate(fit.extraporate, of, a,
                                                    b, diff)]
        ELSE IF SeqMax(obj.of) < of
        THEN IF ~(InRange(cstr_array, n - 3) /\ InRange(obj.of, n - 2))
             THEN [q EXCEPT !.branch = "upper", !.out = Raised("IndexError")]
             ELSE LET diff == diff_end(cstr_array, obj.of)
                      a == SeqMax(obj.of)
                      b == upper_b(cstr_array)
                  IN  [q EXCEPT !.branch = "upper", !.a = a, !.b = b,
                                !.diff = diff,
                                !.out = extrapolate(fit.extraporate, of, a,
                                                    b, diff)]
        ELSE [q EXCEPT !.branch = "inner",
                       !.out = Returned("value", func_interp(fit, of, Pm))]

\* ---- design_EBHR.py, func_Pc_cal (lines 278-282), on the function of
\* cea_post.py: the pressure is scaled before the call, func scales what it
\* is given, and the result of the call is indexed with [0]
NoLookup == [of |-> 0, Pc |-> 0, coord |-> 0, out |-> Nothing]

\* x[0] for what func delivered: a number and None cannot be indexed
Index0(o) ==
    IF o.kind = "value" THEN Raised("IndexError")
    ELSE IF o.kind = "None" THEN Raised("TypeError")
    ELSE o

\* coord is the pressure at which func evaluates the surface
func_Pc_cal_cstr(obj, fit, of, Pc_Pa) ==
    [of |-> of, Pc |-> Pc_Pa, coord |-> ToMPa(ToMPa(Pc_Pa)),
     out |-> Index0(func(obj, fit, of, ToMPa(Pc_Pa)).out)]

\* every residual evaluation calls gen_func_cstr (line 254): newton starts
\* with two evaluations, brentq with two, and every pass that goes on makes
\* one more
CountLoads(n, k) == Min(n + k, MaxLoads)

NewtonInit_evals(cea) == IF gen_func_cstr_raises(cea) THEN 0 ELSE 2

BrentInit_evals(cea) == IF gen_func_cstr_raises(cea) THEN 0 ELSE 2

Step_evals(after) == IF after.st = "run" THEN 1 ELSE 0

\* the attributes __init__ sets besides cea_path and the two ranges, with
\* the values of __main__ (a and eta in thousandths, Rm in tenths, C1 and
\* C2 in units of 1.0e-10); the residual reads them folded into the values
\* of the CSTAR table
PhysicalParameters ==
    [a |-> 973, Df |-> 38, eta |-> 900, rho_f |-> 1191, Rm |-> 2598,
     Tox |-> 280, C1 |-> 934, C2 |-> 25]

\* ------------------------------------------- cea_pre.py: class Cui_input
\* Pc, of and eps are counted in units of 0.002: a hundredth is five units,
\* so no value lies halfway between two hundredths and round(x, 2) does not
\* depend on the binary representation of x. Weights are counted in units
\* of 1.0e-5 percent, the resolution of round(..., 5); temperatures in
\* hundredths of a kelvin.
MaxWidth == 6      \* widest Pc or O/F range entered, in units
MaxInterval == 5   \* largest interval entered, in units (5 is 0.01)

One == 500
UnitsPerHundredth == 5
WtUnit == 100000

\* Python values: float(input()), int(input()) and str
PyFloat(x) == [py |-> "float", v |-> x]

PyInt(x) == [py |-> "int", n |-> x]

PyStr(x) == [py |-> "str", s |-> x]

\* a dictionary of _inp_react_ (lines 295-299)
Species(name, wt, temp, h, elem) ==
    [name |-> PyStr(name), wt |-> PyFloat(wt), temp |-> PyFloat(temp),
     h |-> h, elem |-> PyStr(elem)]

\* _inp_option_: 0, 1, 2 become the CEA keyword, any other integer stays
inp_option(option) ==
    IF option = 0 THEN PyStr("equilibrium")
    ELSE IF option = 1 THEN PyStr("frozen nfz=1")
    ELSE IF option = 2 THEN PyStr("frozen nfz=2")
    ELSE PyInt(option)

Options == {0, 1, 3}

OxidLists == { << Species("O2(L)", 100 * WtUnit, 9015, PyStr(""), "") >> }

FuelLists ==
    { << Species("PMMA", 100 * WtUnit, 29815, PyFloat(-468), "C 5 H 8 O 2") >> }

OtherLists ==
    { << >>, << Species("N2", 10 * WtUnit, 29815, PyStr(""), "") >> }

OmitLists == { << >>, << PyStr("C(gr)"), PyStr("H2O(cr)") >> }

OnlyLists == { << >> }

EpsValues == { PyFloat(2 * One) }

\* [start, end, interval] as _inp_Pc_ and _inp_of_ read them
Ranges(start) ==
    { << PyFloat(start), PyFloat(start + w), PyFloat(st) >> :
        w \in 1..MaxWidth, st \in 1..MaxInterval }

PcRanges == { r \in Ranges(250) : r[2].v - r[1].v >= MaxWidth - 1 }

OfRanges == { r \in Ranges(One) : r[3].v \in {2, MaxInterval} }

\* the nine values a calculation condition consists of
Conditions ==
    [option : { inp_option(o) : o \in Options }, list_oxid : OxidLists,
     list_fuel : FuelLists, list_other : OtherLists, omit : OmitLists,
     only : OnlyLists, eps : EpsValues, Pc : PcRanges, of : OfRanges]

NoCondition == [none |-> TRUE]

NoCui == [lang |-> "none"]

NoJson == [json |-> "absent"]

Condition(c) ==
    [option |-> c.option, list_oxid |-> c.list_oxid,
     list_fuel |-> c.list_fuel, list_other |-> c.list_other,
     omit |-> c.omit, only |-> c.only, eps |-> c.eps, Pc |-> c.Pc,
     of |-> c.of]

\* the object __init__ leaves: flag tells whether the condition was read
\* from cond.json
CuiInput(c, flag) ==
    [lang |-> "en", fld_path |-> "cea_db/case", flag |-> flag,
     option |-> c.option, list_oxid |-> c.list_oxid,
     list_fuel |-> c.list_fuel, list_other |-> c.list_other,
     omit |-> c.omit, only |-> c.only, eps |-> c.eps, Pc |-> c.Pc,
     of |-> c.of]

\* json.dump: a float is written by its repr, which always carries a point
\* or an exponent, an int as its digits, a str as a string
dump(x) ==
    IF x.py = "float" THEN [json |-> "number", digits |-> x.v, point |-> TRUE]
    ELSE IF x.py = "int"
    THEN [json |-> "number", digits |-> x.n, point |-> FALSE]
    ELSE [json |-> "string", chars |-> x.s]

dump_list(l) == [k \in 1..Len(l) |-> dump(l[k])]

dump_dict(d) ==
    [name |-> dump(d.name), wt |-> dump(d.wt), temp |-> dump(d.temp),
     h |-> dump(d.h), elem |-> dump(d.elem)]

dump_dicts(l) == [k \in 1..Len(l) |-> dump_dict(l[k])]

\* json.load: a number with a point or an exponent is a float, any other
\* number an int
load(t) ==
    IF t.json = "string" THEN PyStr(t.chars)
    ELSE IF t.point THEN PyFloat(t.digits)
    ELSE PyInt(t.digits)

load_list(l) == [k \in 1..Len(l) |-> load(l[k])]

load_dict(d) ==
    [name |-> load(d.name), wt |-> load(d.wt), temp |-> load(d.temp),
     h |-> load(d.h), elem |-> load(d.elem)]

load_dicts(l) == [k \in 1..Len(l) |-> load_dict(l[k])]

\* _make_json_: the content of cond.json
make_json(self) ==
    [json |-> "object", option |-> dump(self.option),
     oxid |-> dump_dicts(self.list_oxid), fuel |-> dump_dicts(self.list_fuel),
     other |-> dump_dicts(self.list_other), omit |-> dump_list(self.omit),
     only |-> dump_list(self.only), eps |-> dump(self.eps),
     pc_range |-> dump_list(self.Pc), of_range |-> dump_list(self.of)]

\* _read_json_: the nine attributes it sets
read_json(dic) ==
    [option |-> load(dic.option), list_oxid |-> load_dicts(dic.oxid),
     list_fuel |-> load_dicts(dic.fuel), list_other |-> load_dicts(dic.other),
     omit |-> load_list(dic.omit), only |-> load_list(dic.only),
     eps |-> load(dic.eps), Pc |-> load_list(dic.pc_range),
     of |-> load_list(dic.of_range)]

\* np.arange(r[0], r[1], r[2])
np_arange(r) == Arange(r[1].v, r[2].v, r[3].v)

\* round(x, num_round) with num_round = 2, in hundredths
round_2(x) ==
    IF x % UnitsPerHundredth <= UnitsPerHundredth \div 2
    THEN x \div UnitsPerHundredth
    ELSE x \div UnitsPerHundredth + 1

\* "Pc_{:0>5.2f}__of_{:0>5.2f}" of the two rounded values: the name tells
\* the hundredths of both and nothing else
inp_fname(Pc_v, of_v) == [Pc |-> round_2(Pc_v), of |-> round_2(of_v)]

\* sum([dic["wt"] for dic in self.list_other])
RECURSIVE SumWt(_)
SumWt(l) == IF l = << >> THEN 0 ELSE l[1].wt.v + SumWt(Tail(l))

\* round(x * 1000 / den) without leaving the 32-bit integers
Scaled(x, den) ==
    (x \div den) * 1000 + (2 * (x % den) * 1000 + den) \div (2 * den)

\* round(dic["wt"]*Yo, 5) with Yo = (1.0-wt_other*1e-2)/(1 + 1/of), exact
\* for weights that are whole percents
oxid_wt(wt, wt_other, of_v) ==
    Scaled((wt \div WtUnit) * (100 - wt_other \div WtUnit) * of_v, of_v + One)

\* round(dic["wt"]*Yf, 5) with Yf = (1.0-wt_other*1e-2)/(1 + of)
fuel_wt(wt, wt_other, of_v) ==
    Scaled((wt \div WtUnit) * (100 - wt_other \div WtUnit) * One, of_v + One)

\* the react lines of an input file: keyword, species and weight
React(keyword, l) ==
    [k \in 1..Len(l) |-> [keyword |-> keyword, name |-> l[k].name.s,
                          wt |-> l[k].wt.v, temp |-> l[k].temp.v,
                          h |-> l[k].h, elem |-> l[k].elem.s]]

\* make_inp: the file it opens and what it writes; p,bar is Pc * 10
make_inp(option, of_v, Pc_v, list_oxid, list_fuel, eps, list_omit, list_only) ==
    [fname |-> inp_fname(Pc_v, of_v),
     text |-> [case |-> inp_fname(Pc_v, of_v), of |-> << of_v >>,
               option |-> option, p_bar |-> Pc_v * 10, eps |-> eps.v,
               react |-> React("oxid", list_oxid) \o React("fuel", list_fuel),
               omit |-> list_omit, only |-> list_only]]

\* make_inp_name with the name gen_all passes: the prob line has no o/f
make_inp_name(option, list_species, Pc_v, eps, list_omit, list_only, fname) ==
    [fname |-> fname,
     text |-> [case |-> fname, of |-> << >>, option |-> option,
               p_bar |-> Pc_v * 10, eps |-> eps.v,
               react |-> React("name", list_species),
               omit |-> list_omit, only |-> list_only]]

\* the weights gen_all writes into its copies for one O/F
SetWt(copy, wts) ==
    [k \in 1..Len(wts) |-> [copy[k] EXCEPT !.wt = PyFloat(wts[k])]]

\* open(path, "w"): the file is created or replaced
WriteFile(dir, f) ==
    [n \in DOMAIN dir \cup {f.fname} |->
        IF n = f.fname THEN f.text ELSE dir[n]]

NoFiles == [n \in {} |-> 0]

\* gen_all's frame: position, loop indices and the two deep copies
GenIdle == [pc |-> "idle", i |-> 0, j |-> 0, list_oxid |-> << >>,
            list_fuel |-> << >>]

\* ------------------------------------------------------------------ state
VARIABLES
    cea_path,    \* self.cea_path: which CSTAR table the residual reads
    mox_range,   \* self.mox_range
    Dt_range,    \* self.Dt_range
    pc,          \* position of the running call
    call,        \* the entry point called last: "gen_table", "converge_Pc"
    args,        \* arguments of the converge_Pc frame
    nw,          \* locals of optimize.newton
    br,          \* locals of optimize.brentq
    result,      \* what converge_Pc delivers: a value or an exception
    Dt_i,        \* gen_table: index of the Dt loop
    mox_i,       \* gen_table: index of the mox loop
    Pc,          \* gen_table: the column being filled
    df,          \* gen_table: the data frame, a list of [label, col]
    out,         \* what the last entry-point call delivered to its caller
    cells,       \* the converge_Pc calls gen_table has completed
    phys,        \* self.a, Df, eta, rho_f, Rm, Tox, C1, C2
    loads,       \* gen_func_cstr calls made since the entry point was called
    folder,      \* what is found at a Read_datset's fld_path
    rd,          \* the Read_datset object
    fn,          \* the function gen_func returned last
    qry,         \* the last call of that function
    gout,        \* what the last Read_datset operation delivered
    lookup,      \* the last CSTAR lookup of func_Pc_cal
    entered,     \* the calculation condition the user types in
    cui,         \* the Cui_input object
    inp_files,   \* the files of the case folder's inp directory
    cond_json,   \* the case folder's cond.json
    gen          \* the frame of Cui_input.gen_all

vars == << cea_path, mox_range, Dt_range, pc, call, args, nw, br, result,
           Dt_i, mox_i, Pc, df, out, cells, phys, loads, folder, rd, fn, qry,
           gout, lookup, entered, cui, inp_files, cond_json, gen >>

instance == << phys, cea_path, mox_range, Dt_range >>

sweep == << Dt_i, mox_i, Pc, df, cells >>

grid == << folder, rd, fn, qry, gout, lookup >>

pre == << entered, cui, inp_files, cond_json, gen >>

NoArgs == [mox |-> 0, Dt |-> 0, Pc_init |-> 0]

\* __init__ / _input_range_: both ranges are np.arange(start, stop, step)
Init ==
    /\ cea_path \in CstrTables
    /\ \E a \in 1..MaxMox, b \in 1..(MaxMox + 1), s \in 1..MaxStep :
           mox_range = Arange(a, b, s)
    /\ \E a \in 1..MaxDt, b \in 1..(MaxDt + 1), s \in 1..MaxStep :
           Dt_range = Arange(a, b, s)
    /\ pc = "idle"
    /\ call = "none"
    /\ args = NoArgs
    /\ nw = NewtonIdle
    /\ br = BrentIdle
    /\ result = NoOutcome
    /\ Dt_i = 0
    /\ mox_i = 0
    /\ Pc = << >>
    /\ df = << >>
    /\ out = NoOutcome
    /\ cells = << >>
    /\ phys = PhysicalParameters
    /\ loads = 0
    /\ folder = NoFolder
    /\ rd = NoObject
    /\ fn = NoFunc
    /\ qry = NoQuery
    /\ gout = Nothing
    /\ lookup = NoLookup
    /\ entered = NoCondition
    /\ cui = NoCui
    /\ inp_files = NoFiles
    /\ cond_json = NoJson
    /\ gen = GenIdle

\* variant: the bracketing search keeps its state from the previous solve
Enter_stale(mox, Dt, x0) ==
    /\ pc' = "newton"
    /\ args' = [mox |-> mox, Dt |-> Dt, Pc_init |-> x0]
    /\ nw' = NewtonIdle
    /\ br' = br
    /\ result' = NoOutcome

\* entering converge_Pc(mox, Dt, Pc_init)
Enter(mox, Dt, x0) ==
    /\ pc' = "newton"
    /\ args' = [mox |-> mox, Dt |-> Dt, Pc_init |-> x0]
    /\ nw' = NewtonIdle
    /\ br' = BrentIdle
    /\ result' = NoOutcome

\* a standalone single-point solve with the default initial guess
CallConvergePc ==
    /\ pc = "idle"
    /\ \E mox \in 1..MaxMox, Dt \in 1..MaxDt :
           Enter(mox, Dt, Pc_init_default)
    /\ call' = "converge_Pc"
    /\ out' = NoOutcome
    /\ loads' = 0
    /\ UNCHANGED << instance, grid, pre, sweep >>

\* ---- converge_Pc, line 245: the Newton attempt inside try
NewtonAttempt ==
    /\ pc = "newton" /\ nw.st = "new"
    /\ nw' = NewtonInit(cea_path, args.Pc_init, args.mox, args.Dt)
    /\ loads' = CountLoads(loads, NewtonInit_evals(cea_path))
    /\ UNCHANGED << instance, grid, pre, sweep, pc, call, args, br, result, out >>

NewtonIterate ==
    /\ pc = "newton" /\ nw.st = "run"
    /\ nw' = NewtonStep(cea_path, nw, args.mox, args.Dt)
    /\ loads' = CountLoads(loads, Step_evals(nw'))
    /\ UNCHANGED << instance, grid, pre, sweep, pc, call, args, br, result, out >>

\* variant: the fallback is run although newton returned
NewtonConverged_thenBrent ==
    /\ pc = "newton" /\ nw.st = "ret"
    /\ pc' = "brent"
    /\ UNCHANGED << instance, grid, pre, loads, sweep, call, args, nw, br, result,
                    out >>

\* newton returned: converge_Pc returns its value (line 248)
NewtonConverged ==
    /\ pc = "newton" /\ nw.st = "ret"
    /\ result' = Value(nw.val)
    /\ pc' = "solved"
    /\ UNCHANGED << instance, grid, pre, loads, sweep, call, args, nw, br, out >>

\* variant: newton's exception leaves converge_Pc
NewtonFailed_propagates ==
    /\ pc = "newton" /\ nw.st = "exc"
    /\ result' = Error
    /\ pc' = "solved"
    /\ UNCHANGED << instance, grid, pre, loads, sweep, call, args, nw, br, out >>

\* newton raised: the bare except (line 246) takes every exception
NewtonFailed ==
    /\ pc = "newton" /\ nw.st = "exc"
    /\ pc' = "brent"
    /\ UNCHANGED << instance, grid, pre, loads, sweep, call, args, nw, br, result,
                    out >>

\* ---- converge_Pc, line 247: the Brent attempt inside except
BrentAttempt ==
    /\ pc = "brent" /\ br.st = "new"
    /\ br' = BrentInit(cea_path, args.mox, args.Dt)
    /\ loads' = CountLoads(loads, BrentInit_evals(cea_path))
    /\ UNCHANGED << instance, grid, pre, sweep, pc, call, args, nw, result, out >>

BrentIterate ==
    /\ pc = "brent" /\ br.st = "run"
    /\ br' = BrentStep(cea_path, br, args.mox, args.Dt)
    /\ loads' = CountLoads(loads, Step_evals(br'))
    /\ UNCHANGED << instance, grid, pre, sweep, pc, call, args, nw, result, out >>

BrentConverged ==
    /\ pc = "brent" /\ br.st = "ret"
    /\ result' = Value(br.val)
    /\ pc' = "solved"
    /\ UNCHANGED << instance, grid, pre, loads, sweep, call, args, nw, br, out >>

\* brentq raised (ValueError, RuntimeError or the residual's own error):
\* nothing catches it, converge_Pc ends with the exception
BrentFailed ==
    /\ pc = "brent" /\ br.st = "exc"
    /\ result' = Error
    /\ pc' = "solved"
    /\ UNCHANGED << instance, grid, pre, loads, sweep, call, args, nw, br, out >>

\* the standalone call hands its value or its exception to the caller
ReturnConvergePc ==
    /\ pc = "solved" /\ call = "converge_Pc"
    /\ out' = result
    /\ pc' = "idle"
    /\ UNCHANGED << instance, grid, pre, loads, sweep, call, args, nw, br, result >>

\* -------------------------------------------------------------- gen_table
Table(index, columns) ==
    [kind |-> "table", val |-> 0, index |-> index, columns |-> columns]

\* variant: a new column is put in front of the others
SetColumn_prepend(frame, label, col) ==
    << [label |-> label, col |-> col] >> \o frame

\* df[Dt] = Pc: a new label adds a column at the end, a known one is replaced
SetColumn(frame, label, col) ==
    IF \E k \in 1..Len(frame) : frame[k].label = label
    THEN [k \in 1..Len(frame) |->
             IF frame[k].label = label THEN [label |-> label, col |-> col]
             ELSE frame[k]]
    ELSE Append(frame, [label |-> label, col |-> col])

\* variant: warm start from the value of the cell solved just before
gen_table_guess_warm(col) ==
    IF col = << >> THEN Pc_init_default ELSE col[Len(col)]

\* the initial guess gen_table passes for a cell (line 236), whatever the
\* column holds so far
gen_table_guess(col) == Pc_init_default

\* df = pd.DataFrame({}, index=self.mox_range)
CallGenTable ==
    /\ pc = "idle"
    /\ pc' = "dt_loop"
    /\ call' = "gen_table"
    /\ Dt_i' = 1
    /\ mox_i' = 0
    /\ Pc' = << >>
    /\ df' = << >>
    /\ cells' = << >>
    /\ out' = NoOutcome
    /\ args' = NoArgs
    /\ nw' = NewtonIdle
    /\ br' = BrentIdle
    /\ result' = NoOutcome
    /\ loads' = 0
    /\ UNCHANGED << instance, grid, pre >>

\* for Dt in self.Dt_range: Pc = np.array([])
DtLoop ==
    /\ pc = "dt_loop" /\ Dt_i <= Len(Dt_range)
    /\ Pc' = << >>
    /\ mox_i' = 1
    /\ pc' = "mox_loop"
    /\ UNCHANGED << instance, grid, pre, loads, call, args, nw, br, result, Dt_i,
                    df, out, cells >>

\* for mox in self.mox_range: tmp = self.converge_Pc(mox, Dt, Pc_init=1.0e+6)
MoxLoop ==
    /\ pc = "mox_loop" /\ mox_i <= Len(mox_range)
    /\ Enter(mox_range[mox_i], Dt_range[Dt_i], gen_table_guess(Pc))
    /\ UNCHANGED << instance, grid, pre, loads, sweep, call, out >>

\* converge_Pc returned: Pc = np.append(Pc, tmp)
CellReturn ==
    /\ pc = "solved" /\ call = "gen_table" /\ result.kind = "value"
    /\ Pc' = Append(Pc, result.val)
    /\ cells' = Append(cells, [mox |-> args.mox, Dt |-> args.Dt,
                               Pc_init |-> args.Pc_init, out |-> result])
    /\ mox_i' = mox_i + 1
    /\ pc' = "mox_loop"
    /\ UNCHANGED << instance, grid, pre, loads, call, args, nw, br, result, Dt_i,
                    df, out >>

\* converge_Pc raised: gen_table has no handler, the exception leaves it
CellRaise ==
    /\ pc = "solved" /\ call = "gen_table" /\ result.kind = "error"
    /\ cells' = Append(cells, [mox |-> args.mox, Dt |-> args.Dt,
                               Pc_init |-> args.Pc_init, out |-> result])
    /\ out' = Error
    /\ pc' = "idle"
    /\ UNCHANGED << instance, grid, pre, loads, call, args, nw, br, result, Dt_i,
                    mox_i, Pc, df >>

\* the mox loop is over: df[Dt] = Pc
StoreColumn ==
    /\ pc = "mox_loop" /\ mox_i > Len(mox_range)
    /\ df' = SetColumn(df, Dt_range[Dt_i], Pc)
    /\ Dt_i' = Dt_i + 1
    /\ pc' = "dt_loop"
    /\ UNCHANGED << instance, grid, pre, loads, call, args, nw, br, result, mox_i,
                    Pc, out, cells >>

\* variant: the conversion of the index to g/s is done on self.mox_range
ReturnTable_converts ==
    /\ pc = "dt_loop" /\ Dt_i > Len(Dt_range)
    /\ out' = Table(mox_range, df)
    /\ pc' = "idle"
    /\ mox_range' = [k \in 1..Len(mox_range) |-> mox_range[k] * 1000]
    /\ UNCHANGED << phys, cea_path, Dt_range, grid, pre, loads, sweep, call, args,
                    nw, br, result >>

\* the Dt loop is over: return(df)
ReturnTable ==
    /\ pc = "dt_loop" /\ Dt_i > Len(Dt_range)
    /\ out' = Table(mox_range, df)
    /\ pc' = "idle"
    /\ UNCHANGED << instance, grid, pre, loads, sweep, call, args, nw, br, result >>

Next ==
    \/ CallConvergePc
    \/ NewtonAttempt
    \/ NewtonIterate
    \/ NewtonConverged
    \/ NewtonFailed
    \/ BrentAttempt
    \/ BrentIterate
    \/ BrentConverged
    \/ BrentFailed
    \/ ReturnConvergePc
    \/ CallGenTable
    \/ DtLoop
    \/ MoxLoop
    \/ CellReturn
    \/ CellRaise
    \/ StoreColumn
    \/ ReturnTable

\* every step of a call that has been made; making a call is up to the caller
Progress ==
    \/ NewtonAttempt
    \/ NewtonIterate
    \/ NewtonConverged
    \/ NewtonFailed
    \/ BrentAttempt
    \/ BrentIterate
    \/ BrentConverged
    \/ BrentFailed
    \/ ReturnConvergePc
    \/ DtLoop
    \/ MoxLoop
    \/ CellReturn
    \/ CellRaise
    \/ StoreColumn
    \/ ReturnTable

Spec == Init /\ [][Next]_vars

\* the interpreter runs a call that was made to its end: single-threaded,
\* synchronous, no suspension points
FairSpec == Spec /\ WF_vars(Progress)

\* ------------------------------------------------- Read_datset at work
solver == << instance, sweep, pc, call, args, nw, br, result, out, loads >>

QueryPc == {k * PaPerMPa : k \in 0..MaxPcQ}

\* a folder is chosen; no solver is at work
GridInit ==
    /\ folder \in Folders
    /\ rd = NoObject
    /\ fn = NoFunc
    /\ qry = NoQuery
    /\ gout = Nothing
    /\ lookup = NoLookup
    /\ entered = NoCondition
    /\ cui = NoCui
    /\ inp_files = NoFiles
    /\ cond_json = NoJson
    /\ gen = GenIdle
    /\ cea_path = "missing"
    /\ mox_range = << >>
    /\ Dt_range = << >>
    /\ phys = PhysicalParameters
    /\ pc = "idle"
    /\ call = "none"
    /\ args = NoArgs
    /\ nw = NewtonIdle
    /\ br = BrentIdle
    /\ result = NoOutcome
    /\ Dt_i = 0
    /\ mox_i = 0
    /\ Pc = << >>
    /\ df = << >>
    /\ out = NoOutcome
    /\ cells = << >>
    /\ loads = 0

\* Read_datset(fld_path)
NewReadDatset ==
    /\ rd.st = "none" /\ gout.kind = "none"
    /\ rd' = Read_datset_init(folder).obj
    /\ gout' = Read_datset_init(folder).out
    /\ UNCHANGED << folder, fn, qry, lookup, solver, pre >>

\* func = rd.gen_func(param_name, extraporate); sys.exit ends the process
GenFunc ==
    /\ rd.st = "made" /\ gout.kind # "exit"
    /\ \E param_name \in Params, extraporate \in Selectors :
           LET r == gen_func(folder, rd, param_name, extraporate)
           IN  /\ fn' = IF r.kind = "function" THEN r.val ELSE NoFunc
               /\ gout' = IF r.kind = "function"
                          THEN Returned("function", 0) ELSE r
    /\ qry' = NoQuery
    /\ lookup' = NoLookup
    /\ UNCHANGED << folder, rd, solver, pre >>

\* variant: the call converts the pressure axis of the object in place
Query_inplace ==
    /\ fn.st # "none" /\ gout.kind # "exit"
    /\ \E of \in 0..MaxOfQ, P \in QueryPc :
           /\ qry' = func(rd, fn, of, P)
           /\ gout' = func(rd, fn, of, P).out
    /\ lookup' = NoLookup
    /\ rd' = [rd EXCEPT !.Pc = [k \in 1..Len(rd.Pc) |->
                                    rd.Pc[k] * PaPerMPa]]
    /\ UNCHANGED << folder, fn, solver, pre >>

\* func(of, Pc)
Query ==
    /\ fn.st # "none" /\ gout.kind # "exit"
    /\ \E of \in 0..MaxOfQ, P \in QueryPc :
           /\ qry' = func(rd, fn, of, P)
           /\ gout' = func(rd, fn, of, P).out
    /\ lookup' = NoLookup
    /\ UNCHANGED << folder, rd, fn, solver, pre >>

\* design_EBHR.py, line 279: cstr = func_cstr(of, Pc*1.0e-6)[0], with the
\* function gen_func_cstr builds, gen_func("CSTAR") with the default
\* strategy
CstrLookup ==
    /\ fn.st # "none" /\ gout.kind # "exit"
    /\ fn.param = "CSTAR" /\ fn.extraporate = "linear"
    /\ \E of \in 0..MaxOfQ, P \in QueryPc :
           /\ qry' = func(rd, fn, of, ToMPa(P))
           /\ lookup' = func_Pc_cal_cstr(rd, fn, of, P)
           /\ gout' = func_Pc_cal_cstr(rd, fn, of, P).out
    /\ UNCHANGED << folder, rd, fn, solver, pre >>

GridNext ==
    \/ NewReadDatset
    \/ GenFunc
    \/ Query
    \/ CstrLookup

GridSpec == GridInit /\ [][GridNext]_vars

\* ------------------------------------------- cea_pre.py: generating files
\* a condition is chosen and the case folder is new; no solver is at work
\* and no data set is read
CuiInit ==
    /\ entered \in Conditions
    /\ cui = NoCui
    /\ inp_files = NoFiles
    /\ cond_json = NoJson
    /\ gen = GenIdle
    /\ folder = NoFolder
    /\ rd = NoObject
    /\ fn = NoFunc
    /\ qry = NoQuery
    /\ gout = Nothing
    /\ lookup = NoLookup
    /\ cea_path = "missing"
    /\ mox_range = << >>
    /\ Dt_range = << >>
    /\ phys = PhysicalParameters
    /\ pc = "idle"
    /\ call = "none"
    /\ args = NoArgs
    /\ nw = NewtonIdle
    /\ br = BrentIdle
    /\ result = NoOutcome
    /\ Dt_i = 0
    /\ mox_i = 0
    /\ Pc = << >>
    /\ df = << >>
    /\ out = NoOutcome
    /\ cells = << >>
    /\ loads = 0

\* Cui_input() answered at the prompts: cond.json is missing or declined
NewCuiInput_prompts ==
    /\ gen.pc # "loop"
    /\ cui' = CuiInput(entered, FALSE)
    /\ UNCHANGED << entered, inp_files, cond_json, gen, solver, grid >>

\* Cui_input() with cond.json present and accepted
NewCuiInput_json ==
    /\ gen.pc # "loop"
    /\ cond_json # NoJson
    /\ cui' = CuiInput(read_json(cond_json), TRUE)
    /\ UNCHANGED << entered, inp_files, cond_json, gen, solver, grid >>

\* gen_all up to its loops: the two arrays, and the copies when there are
\* other species
gen_all_enter ==
    /\ cui # NoCui
    /\ gen.pc # "loop"
    /\ gen' = [pc |-> "loop",
               i |-> IF np_arange(cui.of) = << >>
                     THEN Len(np_arange(cui.Pc)) + 1 ELSE 1,
               j |-> 1,
               list_oxid |-> IF Len(cui.list_other) # 0 THEN cui.list_oxid
                             ELSE << >>,
               list_fuel |-> IF Len(cui.list_other) # 0 THEN cui.list_fuel
                             ELSE << >>]
    /\ UNCHANGED << entered, cui, inp_files, cond_json, solver, grid >>

gen_all_write_aliased ==
    /\ gen.pc = "loop"
    /\ gen.i <= Len(np_arange(cui.Pc))
    /\ LET Pc_a == np_arange(cui.Pc)
           of_a == np_arange(cui.of)
           wt_other == SumWt(cui.list_other)
           list_oxid ==
               SetWt(cui.list_oxid,
                     [k \in 1..Len(cui.list_oxid) |->
                         oxid_wt(cui.list_oxid[k].wt.v, wt_other, of_a[gen.j])])
           list_fuel ==
               SetWt(cui.list_fuel,
                     [k \in 1..Len(cui.list_fuel) |->
                         fuel_wt(cui.list_fuel[k].wt.v, wt_other, of_a[gen.j])])
           last == gen.j = Len(of_a)
       IN  /\ IF Len(cui.list_other) = 0
              THEN /\ inp_files' =
                         WriteFile(inp_files,
                             make_inp(cui.option, of_a[gen.j], Pc_a[gen.i],
                                 cui.list_oxid, cui.list_fuel, cui.eps,
                                 cui.omit, cui.only))
                   /\ gen' = [gen EXCEPT !.j = IF last THEN 1 ELSE @ + 1,
                                         !.i = IF last THEN @ + 1 ELSE @]
                   /\ cui' = cui
              ELSE /\ inp_files' =
                         WriteFile(inp_files,
                             make_inp_name(cui.option,
                                 list_oxid \o list_fuel \o cui.list_other,
                                 Pc_a[gen.i], cui.eps, cui.omit, cui.only,
                                 inp_fname(Pc_a[gen.i], of_a[gen.j])))
                   /\ gen' = [gen EXCEPT !.j = IF last THEN 1 ELSE @ + 1,
                                         !.i = IF last THEN @ + 1 ELSE @,
                                         !.list_oxid = list_oxid,
                                         !.list_fuel = list_fuel]
                   /\ cui' = [cui EXCEPT !.list_oxid = list_oxid,
                                         !.list_fuel = list_fuel]
    /\ UNCHANGED << entered, cond_json, solver, grid >>

\* one pass of the inner loop: the file of (Pc[i], of[j]) is written, by
\* make_inp, or by make_inp_name from the copies with their weights set
gen_all_write ==
    /\ gen.pc = "loop"
    /\ gen.i <= Len(np_arange(cui.Pc))
    /\ LET Pc_a == np_arange(cui.Pc)
           of_a == np_arange(cui.of)
           wt_other == SumWt(cui.list_other)
           list_oxid ==
               SetWt(gen.list_oxid,
                     [k \in 1..Len(cui.list_oxid) |->
                         oxid_wt(cui.list_oxid[k].wt.v, wt_other, of_a[gen.j])])
           list_fuel ==
               SetWt(gen.list_fuel,
                     [k \in 1..Len(cui.list_fuel) |->
                         fuel_wt(cui.list_fuel[k].wt.v, wt_other, of_a[gen.j])])
           last == gen.j = Len(of_a)
       IN  IF Len(cui.list_other) = 0
           THEN /\ inp_files' =
                      WriteFile(inp_files,
                          make_inp(cui.option, of_a[gen.j], Pc_a[gen.i],
                              cui.list_oxid, cui.list_fuel, cui.eps,
                              cui.omit, cui.only))
                /\ gen' = [gen EXCEPT !.j = IF last THEN 1 ELSE @ + 1,
                                      !.i = IF last THEN @ + 1 ELSE @]
           ELSE /\ inp_files' =
                      WriteFile(inp_files,
                          make_inp_name(cui.option,
                              list_oxid \o list_fuel \o cui.list_other,
                              Pc_a[gen.i], cui.eps, cui.omit, cui.only,
                              inp_fname(Pc_a[gen.i], of_a[gen.j])))
                /\ gen' = [gen EXCEPT !.j = IF last THEN 1 ELSE @ + 1,
                                      !.i = IF last THEN @ + 1 ELSE @,
                                      !.list_oxid = list_oxid,
                                      !.list_fuel = list_fuel]
    /\ UNCHANGED << entered, cui, cond_json, solver, grid >>

\* after the loops: cond.json is written and gen_all returns
gen_all_return ==
    /\ gen.pc = "loop"
    /\ gen.i > Len(np_arange(cui.Pc))
    /\ cond_json' = make_json(cui)
    /\ gen' = [gen EXCEPT !.pc = "done"]
    /\ UNCHANGED << entered, cui, inp_files, solver, grid >>

CuiNext ==
    \/ NewCuiInput_prompts
    \/ NewCuiInput_json
    \/ gen_all_enter
    \/ gen_all_write
    \/ gen_all_return

CuiSpec == CuiInit /\ [][CuiNext]_vars



\* ------------------------------------------------------------- properties
\* C1: Brent is attempted only after the Newton attempt ended in failure;
\* when Newton succeeds converge_Pc returns Newton's value unchanged and
\* Brent is never started; a value that comes from Brent is returned only
\* after Newton failed.
C1_BrentOnlyAfterNewtonFailed ==
    /\ (pc = "brent" \/ br.st # "new") => nw.st = "exc"
    /\ (pc = "solved" /\ nw.st = "ret") =>
           (result = Value(nw.val) /\ br.st = "new")
    /\ (pc = "solved" /\ nw.st = "exc" /\ result.kind = "value") =>
           (br.st = "ret" /\ result = Value(br.val))

C1_Witness_NewtonValueReturned ==
    /\ pc = "solved" /\ nw.st = "ret" /\ nw.itr > 0
    /\ result = Value(nw.val) /\ br.st = "new"

\* C2: a failure of the Newton attempt (budget of 10 used up, error raised
\* by the residual) never leaves converge_Pc: the only step after it starts
\* the Brent attempt, and an error that converge_Pc does deliver is Brent's.
C2_NewtonFailureIsCaught ==
    [][ /\ (pc = "newton" /\ nw.st = "exc") =>
               (pc' = "brent" /\ result' = NoOutcome /\ out' = out)
        /\ (result'.kind = "error") => (br'.st = "exc") ]_vars

C2_Witness_BudgetUsedUpThenBrent ==
    /\ pc = "brent" /\ br.st = "run"
    /\ nw.st = "exc" /\ nw.itr = NewtonMaxIter


\* the sweep has ended, with a table or with an exception
SweepEnded == pc = "idle" /\ call = "gen_table"

\* position k of the log holds the solve of row i, column j
IsCell(k, i, j) ==
    cells[k].mox = mox_range[i] /\ cells[k].Dt = Dt_range[j]

\* the returned table has a column labelled Dt_range[j] whose row i holds v
HasEntry(i, j, v) ==
    \E c \in 1..Len(out.columns) :
        /\ out.columns[c].label = Dt_range[j]
        /\ i \in 1..Len(out.columns[c].col)
        /\ out.columns[c].col[i] = v

\* C3: when the solve of one cell of a sweep fails, every other cell is
\* still solved and the table is returned with the converged values of the
\* other cells.
C3_FailedCellDoesNotStopSweep ==
    SweepEnded =>
        \A f \in 1..Len(cells) :
            cells[f].out.kind = "error" =>
                \A i \in 1..Len(mox_range), j \in 1..Len(Dt_range) :
                    LET alone == converge_Pc(cea_path, mox_range[i],
                                             Dt_range[j], Pc_init_default)
                    IN  (~ IsCell(f, i, j) /\ alone.kind = "value") =>
                            /\ \E k \in 1..Len(cells) : IsCell(k, i, j)
                            /\ out.kind = "table"
                            /\ HasEntry(i, j, alone.val)

\* C4: in the returned table a cell whose solve failed holds a failure
\* marker that is no pressure value, and every number in the table is a
\* value some solve of the sweep returned.
C4_FailedCellIsMarked ==
    SweepEnded =>
        \A k \in 1..Len(cells) :
            \A i \in 1..Len(mox_range), j \in 1..Len(Dt_range) :
                IsCell(k, i, j) =>
                    IF cells[k].out.kind = "error"
                    THEN /\ out.kind = "table"
                         /\ ~ \E v \in Int : HasEntry(i, j, v)
                    ELSE out.kind = "table" =>
                             HasEntry(i, j, cells[k].out.val)


\* a standalone converge_Pc call has ended
SolveEnded == pc = "idle" /\ call = "converge_Pc"

\* the residual of the cell being solved, at pressure P
ResidualAt(P) == iterat_func_Pc(cea_path, P, args.mox, args.Dt)

\* the residual has one strict sign at both ends of the Brent bracket
SameSignAtEnds ==
    /\ ~ gen_func_cstr_raises(cea_path)
    /\ Sign(ResidualAt(BrentLo)) * Sign(ResidualAt(BrentHi)) > 0

\* C5: a standalone converge_Pc whose Newton attempt failed and whose
\* residual has the same sign at both ends of the bracket, or whose Brent
\* attempt used up its iteration budget, ends in an error handed to the
\* caller and delivers no pressure.
C5_NoRootIsAnError ==
    (SolveEnded /\ nw.st = "exc" /\
     (SameSignAtEnds \/ br.itr = BrentMaxIter)) => out = Error

C5_Witness_BrentBudgetUsedUp ==
    /\ SolveEnded /\ nw.st = "exc"
    /\ br.itr = BrentMaxIter /\ ~ SameSignAtEnds
    /\ out = Error


\* the residual has opposite strict signs at the ends of the Brent bracket
OppositeSignsAtEnds ==
    /\ ~ gen_func_cstr_raises(cea_path)
    /\ Sign(ResidualAt(BrentLo)) * Sign(ResidualAt(BrentHi)) < 0

\* x is a root of the residual or within the tolerance of a sign change
NearSignChange(x) ==
    \/ ResidualAt(x) = 0
    \/ \E y \in (x - Tol)..(x + Tol) :
           Sign(ResidualAt(x)) * Sign(ResidualAt(y)) < 0

InBracket(x) == BrentLo <= x /\ x <= BrentHi

C7_TableShapeAndContent ==
    (SweepEnded /\ out.kind = "table") =>
        LET n == Len(mox_range)
            m == Len(Dt_range)
        IN  /\ out.index = mox_range
            /\ Len(out.columns) = m
            /\ Len(cells) = n * m
            /\ \A j \in 1..m :
                   /\ out.columns[j].label = Dt_range[j]
                   /\ Len(out.columns[j].col) = n
                   /\ \A i \in 1..n :
                          /\ IsCell((j - 1) * n + i, i, j)
                          /\ cells[(j - 1) * n + i].out =
                                 Value(out.columns[j].col[i])

C7_Witness_TwoByTwoTable ==
    /\ SweepEnded /\ out.kind = "table"
    /\ Len(mox_range) >= 2 /\ Len(Dt_range) >= 2

\* C8: every Newton attempt of a sweep starts from the fixed initial guess
\* 1.0e6 Pa, whatever the cells solved before have returned.
C8_FixedInitialGuess ==
    /\ (call = "gen_table" /\ pc \in {"newton", "brent", "solved"}) =>
           /\ args.Pc_init = Pc_init_default
           /\ (nw.st = "run" /\ nw.itr = 0) => nw.p0 = Pc_init_default
    /\ \A k \in 1..Len(cells) : cells[k].Pc_init = Pc_init_default

C8_Witness_GuessAfterOtherValue ==
    /\ call = "gen_table" /\ pc = "newton" /\ nw.st = "run" /\ nw.itr = 0
    /\ nw.p0 = Pc_init_default
    /\ Len(cells) >= 1
    /\ cells[Len(cells)].out.kind = "value"
    /\ cells[Len(cells)].out.val # Pc_init_default

\* C9: the outcome gen_table obtains for a cell (mox, Dt), and the entry it
\* stores for it, is the outcome of converge_Pc(mox, Dt, 1.0e6) on its own,
\* whatever the other cells of the sweep are; a standalone call delivers
\* that same outcome.
C9_CellEqualsStandaloneSolve ==
    /\ \A k \in 1..Len(cells) :
           cells[k].out = converge_Pc(cea_path, cells[k].mox, cells[k].Dt,
                                      Pc_init_default)
    /\ (SweepEnded /\ out.kind = "table") =>
           \A i \in 1..Len(mox_range), j \in 1..Len(Dt_range) :
               LET alone == converge_Pc(cea_path, mox_range[i], Dt_range[j],
                                        Pc_init_default)
               IN  alone.kind = "value" /\ HasEntry(i, j, alone.val)
    /\ SolveEnded =>
           out = converge_Pc(cea_path, args.mox, args.Dt, args.Pc_init)

C9_Witness_SweepWithBrentCells ==
    /\ Len(cells) >= 2
    /\ cells[1].out.kind = "value" /\ cells[1].out.val > Pc_init_default
    /\ cells[2].out.kind = "error"

\* C10: a converge_Pc call makes at most 10 Newton iterations and then at
\* most the budgeted number of Brent iterations, and every call that was
\* made, single solve or sweep, comes to its end.
C10_BoundedAndTerminates ==
    /\ [](nw.itr <= NewtonMaxIter /\ br.itr <= BrentMaxIter)
    /\ (pc # "idle") ~> (pc = "idle")

C10_Witness_BothBudgetsUsedUp ==
    /\ SweepEnded /\ out = Error
    /\ nw.itr = NewtonMaxIter /\ br.itr = BrentMaxIter


\* C11: whenever converge_Pc returns the pressure newton delivered, the
\* relative residual |Pc_cal - Pc| / Pc_cal at that pressure is below the
\* tolerance 1.0e-3.
RelResidualBelowTol(cea, P, mox, Dt) ==
    Abs(func_Pc_cal(cea, P, mox, Dt) - P) * ErrScale
        < func_Pc_cal(cea, P, mox, Dt)

C11_NewtonValueMeetsResidualTolerance ==
    (pc = "solved" /\ nw.st = "ret") =>
        RelResidualBelowTol(cea_path, result.val, args.mox, args.Dt)


\* C19: no step of a converge_Pc call or of a gen_table sweep changes a
\* physical parameter of the instance (a, Df, eta, rho_f, Rm, Tox, C1, C2,
\* cea_path) or one of its two ranges.
C19_ParametersNeverChange == [][instance' = instance]_vars

C19_Witness_SolveAfterSweep ==
    /\ pc = "idle" /\ call = "converge_Pc" /\ out.kind = "value"
    /\ Len(cells) >= 2
    /\ phys = PhysicalParameters /\ Len(mox_range) >= 2

\* C20: over the residual evaluations of one call, single solve or sweep,
\* the CSTAR table is loaded and its surface fitted at most once.
C20_TableLoadedAtMostOnce == loads <= 1


\* the table of the property the function was generated for
TableOfFunc ==
    folder.files[CHOOSE k \in 1..Len(folder.files) :
                     folder.files[k].name = fn.param]

FuncReturned == fn.st # "none"

\* C12: a function gen_func returned gives, at every node (of_i, pc_j) of
\* the table it was generated from, the value the table holds there.
C12_NodesReproduced ==
    FuncReturned =>
        \A i \in 1..Len(TableOfFunc.of), j \in 1..Len(TableOfFunc.Pc) :
            func(rd, fn, TableOfFunc.of[i],
                 TableOfFunc.Pc[j] * PaPerMPa).out
                = Returned("value", TableOfFunc.value[i][j])

\* C13: in a call below the axis the straight line, taken at of.min(),
\* gives what the function returns in range at (of.min(), Pc); in a call
\* above the axis the same holds at of.max().
C13_LineStartsOnSurface ==
    /\ (qry.branch = "lower" /\ qry.out.kind # "raise") =>
           /\ qry.a = SeqMin(rd.of)
           /\ func(rd, fn, qry.a, qry.Pc).out
                  = Returned("value",
                             extrapfunc_linear(SeqMin(rd.of), qry.a, qry.b,
                                               qry.diff))
    /\ (qry.branch = "upper" /\ qry.out.kind # "raise") =>
           /\ qry.a = SeqMax(rd.of)
           /\ func(rd, fn, qry.a, qry.Pc).out
                  = Returned("value",
                             extrapfunc_linear(SeqMax(rd.of), qry.a, qry.b,
                                               qry.diff))

C13_Witness_LowerCallOnCurvedTable ==
    /\ qry.branch = "lower" /\ qry.out.kind = "value"
    /\ fn.st = "grid" /\ fn.param = "CSTAR" /\ fn.x = OfEven
    /\ qry.Pc = 2 * PaPerMPa /\ qry.b = Val("curved", 2, 2)
    /\ qry.b # TableOfFunc.value[2][2]

\* C14: with the linear strategy, the values returned for two mixture
\* ratios on the same side outside the axis, at the same pressure, differ
\* by the edge slope times the difference of the mixture ratios.
C14_LinearOutsideTheAxis ==
    (qry.branch \in {"lower", "upper"} /\ qry.out.kind = "value") =>
        \A of2 \in 0..MaxOfQ :
            LET other == func(rd, fn, of2, qry.Pc)
            IN  other.branch = qry.branch =>
                    /\ other.out.kind = "value"
                    /\ other.diff = qry.diff
                    /\ qry.out.val - other.out.val
                           = qry.diff * (qry.of - of2)

C14_Witness_TwoPointsAboveTheAxis ==
    /\ qry.branch = "upper" /\ qry.out.kind = "value" /\ qry.diff > 0
    /\ qry.of >= SeqMax(rd.of) + 2
    /\ qry.out.val = qry.b + qry.diff * (qry.of - SeqMax(rd.of))

\* C15: a table with fewer than three mixture-ratio rows can be loaded, and
\* asking its function for a value outside the axis is what fails, with an
\* exception (InsufficientGridPoints); no such call returns a value.
C15_TooFewRowsFailAtQuery ==
    /\ \A p \in Params :
           (rd.axes /\ Len(rd.of) < 3 /\ HasFile(folder, p)) =>
               LET r == gen_func(folder, rd, p, "linear")
               IN  /\ r.kind = "function"
                   /\ \A of \in 0..MaxOfQ, P \in QueryPc :
                          func(rd, r.val, of, P).branch # "inner" =>
                              func(rd, r.val, of, P).out.kind = "raise"
    /\ (Len(rd.of) < 3 /\ qry.branch \in {"lower", "upper"}) =>
           qry.out.kind = "raise"

\* C16: asking for a property the folder has no table of raises an
\* exception (DatasetNotFound) to the caller; the process is not ended.
C16_MissingTableRaises ==
    /\ gout.kind # "exit"
    /\ \A p \in Params :
           (rd.st = "made" /\ ~HasFile(folder, p)) =>
               gen_func(folder, rd, p, "linear").kind = "raise"

\* C17: the axes a returned function pairs with the values of its
\* property are the row and column labels of that property's own table.
C17_AxesAreTheTablesOwn ==
    FuncReturned =>
        /\ fn.x = TableOfFunc.of /\ rd.of = TableOfFunc.of
        /\ fn.y = TableOfFunc.Pc /\ rd.Pc = TableOfFunc.Pc

\* C18: when the shape of the values does not match the lengths of the
\* axes, gen_func raises an exception (DomainInconsistency): no function
\* is returned, so no query ever meets the mismatch.
C18_ShapeMismatchRaisesAtBuild ==
    /\ FuncReturned =>
           /\ Len(fn.z) = Len(fn.x)
           /\ \A i \in 1..Len(fn.z) : Len(fn.z[i]) = Len(fn.y)
    /\ \A p \in Params :
           (rd.axes /\ HasFile(folder, p)
                /\ LET v == read_csv(folder, p).val
                   IN  Len(v) # Len(rd.of) \/ Len(v[1]) # Len(rd.Pc)) =>
               gen_func(folder, rd, p, "linear").kind = "raise"


\* C21: a call of the function gen_func returned, in any branch, leaves the
\* axes of the object, the fitted values and the folder as they were, and
\* calling again with the same (of, Pc) gives the same result.
C21_CallsChangeNothing ==
    [][qry'.branch # "none" =>
           /\ rd' = rd /\ fn' = fn /\ folder' = folder
           /\ func(rd', fn', qry'.of, qry'.Pc) = qry']_vars

C21_Witness_CallAtTheUpperEdge ==
    /\ qry.branch = "inner" /\ qry.out.kind = "value"
    /\ qry.of = SeqMax(rd.of) /\ fn.st = "grid"
    /\ rd.of = TableOfFunc.of


\* C22: the pressure of a call is not checked against the pressure axis:
\* a call with a pressure outside the axis ends as the call with the
\* nearest pressure of the axis does, in the same branch and with the same
\* value or exception, so it never fails because of the pressure and no
\* formula of the function's own is applied along the pressure.
C22_PressureIsNotChecked ==
    qry.branch # "none" =>
        LET edge == Clamp(fn.y, ToMPa(qry.Pc)) * PaPerMPa
            atEdge == func(rd, fn, qry.of, edge)
        IN  /\ qry.branch = atEdge.branch
            /\ qry.out = atEdge.out
            /\ qry.out.kind = "raise" =>
                   qry.out.err \in {"IndexError", "UnboundLocalError"}

C22_Witness_PressureAboveTheAxis ==
    /\ fn.st = "grid" /\ qry.branch = "lower" /\ qry.out.kind = "value"
    /\ ToMPa(qry.Pc) > SeqMax(fn.y)


\* the surface along the mixture-ratio axis at the pressure of the last call
RowAtCall == [k \in 1..Len(rd.of) |-> func_interp(fn, rd.of[k], ToMPa(qry.Pc))]

\* rows i, i+1, i+2 of RowAtCall lie on one straight line in of
OnALine(i) ==
    (RowAtCall[i + 1] - RowAtCall[i]) * (rd.of[i + 2] - rd.of[i + 1])
        = (RowAtCall[i + 2] - RowAtCall[i + 1]) * (rd.of[i + 1] - rd.of[i])

\* C23: when the first three rows lie on a straight line in of, the slope
\* the below-range branch computes is the slope of that line, whatever the
\* spacing of the axis; likewise the last three rows and the above-range
\* branch.
C23_SlopeExactOnLinearData ==
    /\ (qry.branch = "lower" /\ qry.out.kind # "raise" /\ OnALine(1)) =>
           qry.diff * (rd.of[2] - rd.of[1]) = RowAtCall[2] - RowAtCall[1]
    /\ (qry.branch = "upper" /\ qry.out.kind # "raise"
            /\ OnALine(Len(rd.of) - 2)) =>
           qry.diff * (rd.of[Len(rd.of)] - rd.of[Len(rd.of) - 1])
               = RowAtCall[Len(rd.of)] - RowAtCall[Len(rd.of) - 1]


\* C24: in a CSTAR lookup of the residual at chamber pressure Pc (in Pa)
\* the surface is evaluated at the pressure-axis coordinate Pc * 1.0e-6:
\* the scaling from Pa to MPa is applied once.
C24_ScaledOnce ==
    lookup # NoLookup => lookup.coord = ToMPa(lookup.Pc)


\* C25: with a strategy other than "linear" a call outside the
\* mixture-ratio axis ends in an exception; it does not return None or a
\* value.
C25_OtherStrategiesRaise ==
    (fn.st # "none" /\ fn.extraporate # "linear"
         /\ qry.branch \in {"lower", "upper"}) =>
        qry.out.kind = "raise"


\* C26: a call takes the in-range branch exactly when of.min() <= of <=
\* of.max(), the below-range branch exactly when of < of.min() and the
\* above-range branch exactly when of > of.max(); in range it returns the
\* value of the surface, the same for every strategy given to gen_func.
C26_BranchesAndInRangeValue ==
    qry.branch # "none" =>
        /\ qry.branch = "lower" <=> qry.of < SeqMin(rd.of)
        /\ qry.branch = "upper" <=> qry.of > SeqMax(rd.of)
        /\ qry.branch = "inner" <=>
               (SeqMin(rd.of) <= qry.of /\ qry.of <= SeqMax(rd.of))
        /\ qry.branch = "inner" =>
               /\ qry.out = Returned("value",
                                     func_interp(fn, qry.of, ToMPa(qry.Pc)))
               /\ \A sel \in Selectors :
                      func(rd, [fn EXCEPT !.extraporate = sel], qry.of,
                           qry.Pc).out = qry.out

C26_Witness_LowerEdgeWithoutStrategy ==
    /\ qry.branch = "inner" /\ qry.out.kind = "value"
    /\ qry.of = SeqMin(rd.of) /\ fn.extraporate = "False"


\* C27: what _make_json_ wrote, _read_json_ reads back as the nine values
\* (option, list_oxid, list_fuel, list_other, omit, only, eps, Pc range,
\* of range) that were entered, and gen_all leaves the object's condition,
\* list_oxid and list_fuel included, as it was entered, so the cond.json
\* gen_all writes holds the entered condition.
C27_ConditionRoundTrip ==
    /\ cui # NoCui => Condition(cui) = entered
    /\ cond_json # NoJson => read_json(cond_json) = entered
    /\ gen.pc = "done" => cond_json = make_json(CuiInput(entered, FALSE))

C27_Witness_ReadBackAfterOtherSpecies ==
    /\ cui # NoCui /\ cui.flag /\ gen.pc = "done"
    /\ Len(cui.list_other) # 0 /\ cui.option.py = "int"
    /\ gen.list_oxid # cui.list_oxid

\* C28: when gen_all has returned into a new case folder, the inp directory
\* holds one file for every condition of the sweep: as many files as there
\* are (Pc, of) pairs, and under each pair's name the input of that pair.
C28_OneFilePerCondition ==
    gen.pc = "done" =>
        LET Pc_a == np_arange(cui.Pc)
            of_a == np_arange(cui.of)
        IN  /\ Cardinality(DOMAIN inp_files) = Len(Pc_a) * Len(of_a)
            /\ \A i \in 1..Len(Pc_a), j \in 1..Len(of_a) :
                   /\ inp_fname(Pc_a[i], of_a[j]) \in DOMAIN inp_files
                   /\ inp_files[inp_fname(Pc_a[i], of_a[j])].p_bar
                          = Pc_a[i] * 10

====
